---- MODULE Spec2Model ----
(***************************************************************************)
(* DynamoAutoScale.py: a Lambda handler that walks the DynamoDB tables of  *)
(* the account and, for every table and every global secondary index,      *)
(* adjusts the provisioned read/write capacity to the peak consumption of   *)
(* the last day.                                                            *)
(*                                                                          *)
(* Numbers.  The script computes with Python floats.  Here a peak is kept   *)
(* as the integer numerator of the fraction  Sum / SECONDS_PER_DATA_POINT   *)
(* and the three decimal settings are kept in hundredths, so that           *)
(*     ceil(peak * 1.15)   is  ceil(peak * 115 / (300 * 100))               *)
(*     peak > cap * 0.90   is  peak * 100 > cap * 90 * 300                  *)
(* computed exactly.  For the integer sums used below the exact value and   *)
(* the IEEE double value of both expressions coincide (boto3 hands Sum over *)
(* as a float, so the division is a true division).                         *)
(***************************************************************************)
EXTENDS Integers, Sequences, FiniteSets, TLC

(***************************************************************************)
(* Settings of the script (module-level constants, lines 11-37).           *)
(***************************************************************************)
Hundredths == 100
RAISE_CAPACITY_THRESHOLD == 90
RAISE_CAPACITY_MULTIPLE == 140
LOWER_CAPACITY_MULTIPLE == 115
MAXIMUM_TIMES_TO_LOWER_CAPACITY_PER_DAY == 1
MINIMUM_CAPACITY == 3
MAXIMUM_CAPACITY == 5000
SECONDS_PER_DATA_POINT == 300

(***************************************************************************)
(* Bounds of the model.                                                    *)
(***************************************************************************)
MaxTables == 2
MaxIndexes == 2
MaxSamples == 2
MaxDecreases == 1
MaxInvocations == 2

AllTableNames == <<"t1", "t2", "t3", "t4">>
AllIndexNames == <<"i1", "i2", "i3", "i4">>
NoIndex == "-"
NoUnit == [table |-> "-", index |-> "-"]

\* Inputs of the single-unit specification.
CapValues == {1, 10, MAXIMUM_CAPACITY, MAXIMUM_CAPACITY + 1000}
SumValues == {300, 2700, 2850, 1200000}
Windows == UNION {[1..n -> SumValues] : n \in 0..MaxSamples}
PlainCapacities == {10}
PlainWindows == {<<>>, <<2850>>}

VARIABLES
    TableNames,                    \* what list_tables returns
    global_secondary_indexes,      \* per table: absent, or the index names in listing order
    provisioned_throughput,        \* per unit: the capacities and the decrease count the service reports
    Datapoints,                    \* per unit and metric: the Sum of each datapoint of the last day
    EMAIL_ADDRESS_OF_SENDER,
    EMAIL_ADDRESSES_OF_RECIPIENTS,
    pending,                       \* invocations the trigger will still start
    invocation,                    \* invocations started so far
    prev,                          \* how the previous invocation ended
    pc,
    tables,                        \* table names the loop of lambda_handler has not reached
    indexes,                       \* secondaryIndex entries the loop of adjustTableIndexCapacities has not reached
    unit,                          \* the table or index being processed
    local,                         \* local variables of the running procedure
    failedAt,                      \* the unit at which a call raised, NoUnit if none did
    queries,                       \* get_metric_statistics calls of this invocation
    updates,                       \* update_table calls of this invocation
    emails,                        \* send_email calls of this invocation
    logs                           \* lines printed by this invocation

env == <<TableNames, global_secondary_indexes, Datapoints,
         EMAIL_ADDRESS_OF_SENDER, EMAIL_ADDRESSES_OF_RECIPIENTS>>
trig == <<pending, invocation, prev>>
out == <<queries, updates, emails, logs>>
vars == <<TableNames, global_secondary_indexes, provisioned_throughput, Datapoints,
          EMAIL_ADDRESS_OF_SENDER, EMAIL_ADDRESSES_OF_RECIPIENTS,
          pending, invocation, prev, pc, tables, indexes, unit, local, failedAt,
          queries, updates, emails, logs>>

Range(s) == {s[i] : i \in DOMAIN s}

TableUnit(t) == [table |-> t, index |-> NoIndex]
IndexUnit(t, i) == [table |-> t, index |-> i]

\* The units of a listing: every table, and every index of a table that has some.
UnitsOf(names, gsi) ==
    {TableUnit(t) : t \in Range(names)}
    \cup UNION {{IndexUnit(t, i) : i \in Range(gsi[t].names)} : t \in Range(names)}

(***************************************************************************)
(* Arithmetic of the procedures.                                           *)
(***************************************************************************)
Max2(a, b) == IF a >= b THEN a ELSE b
Min2(a, b) == IF a <= b THEN a ELSE b

\* math.ceil(peak * multiple), peak in SECONDS_PER_DATA_POINT-ths, multiple in hundredths.
CeilTimes(peak, multiple) ==
    LET n == peak * multiple
        d == SECONDS_PER_DATA_POINT * Hundredths
    IN  (n + d - 1) \div d

\* Variant: the comparison written >= instead of >.
AboveOrAtThreshold(peak, capacity) ==
    peak * Hundredths >= capacity * RAISE_CAPACITY_THRESHOLD * SECONDS_PER_DATA_POINT

\* peak > capacity * RAISE_CAPACITY_THRESHOLD
AboveThreshold(peak, capacity) ==
    peak * Hundredths > capacity * RAISE_CAPACITY_THRESHOLD * SECONDS_PER_DATA_POINT

\* The loop  peak = max(peak, datapoint["Sum"]/SECONDS_PER_DATA_POINT)  from peak = 0.
RECURSIVE PeakLoop(_, _)
PeakLoop(peak, points) ==
    IF points = <<>> THEN peak
    ELSE PeakLoop(Max2(peak, Head(points)), Tail(points))

\* Variant: the min(..., MAXIMUM_CAPACITY) line left out.
TableAdjustedNoCeiling(capacity, peak, decreasesSoFarToday) ==
    LET lowered == IF decreasesSoFarToday < MAXIMUM_TIMES_TO_LOWER_CAPACITY_PER_DAY
                   THEN CeilTimes(peak, LOWER_CAPACITY_MULTIPLE)
                   ELSE capacity
        raised == IF AboveThreshold(peak, capacity)
                  THEN CeilTimes(peak, RAISE_CAPACITY_MULTIPLE)
                  ELSE lowered
    IN  Max2(raised, MINIMUM_CAPACITY)

\* Variant: the lower pass without its test of decreasesSoFarToday.
TableAdjustedAlwaysLowers(capacity, peak, decreasesSoFarToday) ==
    LET lowered == CeilTimes(peak, LOWER_CAPACITY_MULTIPLE)
        raised == IF AboveThreshold(peak, capacity)
                  THEN CeilTimes(peak, RAISE_CAPACITY_MULTIPLE)
                  ELSE lowered
    IN  Min2(Max2(raised, MINIMUM_CAPACITY), MAXIMUM_CAPACITY)

\* adjustTableCapacity, lines 81-97, for one direction.
TableAdjusted(capacity, peak, decreasesSoFarToday) ==
    LET start == capacity
        lowered == IF decreasesSoFarToday < MAXIMUM_TIMES_TO_LOWER_CAPACITY_PER_DAY
                   THEN CeilTimes(peak, LOWER_CAPACITY_MULTIPLE)
                   ELSE start
        raised == IF AboveThreshold(peak, capacity)
                  THEN CeilTimes(peak, RAISE_CAPACITY_MULTIPLE)
                  ELSE lowered
    IN  Min2(Max2(raised, MINIMUM_CAPACITY), MAXIMUM_CAPACITY)

\* Variant: the max(..., MINIMUM_CAPACITY) line left out.
IndexAdjustedNoFloor(capacity, peak, decreasesSoFarToday) ==
    LET lowered == IF decreasesSoFarToday < MAXIMUM_TIMES_TO_LOWER_CAPACITY_PER_DAY
                   THEN CeilTimes(peak, LOWER_CAPACITY_MULTIPLE)
                   ELSE capacity
        raised == IF AboveThreshold(peak, capacity)
                  THEN CeilTimes(peak, RAISE_CAPACITY_MULTIPLE)
                  ELSE lowered
    IN  Min2(raised, MAXIMUM_CAPACITY)

\* Variant: the min(..., MAXIMUM_CAPACITY) line left out.
IndexAdjustedNoCeiling(capacity, peak, decreasesSoFarToday) ==
    LET lowered == IF decreasesSoFarToday < MAXIMUM_TIMES_TO_LOWER_CAPACITY_PER_DAY
                   THEN CeilTimes(peak, LOWER_CAPACITY_MULTIPLE)
                   ELSE capacity
        raised == IF AboveThreshold(peak, capacity)
                  THEN CeilTimes(peak, RAISE_CAPACITY_MULTIPLE)
                  ELSE lowered
    IN  Max2(raised, MINIMUM_CAPACITY)

\* Variant: the raise pass compares the peak with the value the lower pass wrote.
IndexAdjustedRaiseAfterLower(capacity, peak, decreasesSoFarToday) ==
    LET lowered == IF decreasesSoFarToday < MAXIMUM_TIMES_TO_LOWER_CAPACITY_PER_DAY
                   THEN CeilTimes(peak, LOWER_CAPACITY_MULTIPLE)
                   ELSE capacity
        raised == IF AboveThreshold(peak, lowered)
                  THEN CeilTimes(peak, RAISE_CAPACITY_MULTIPLE)
                  ELSE lowered
    IN  Min2(Max2(raised, MINIMUM_CAPACITY), MAXIMUM_CAPACITY)

\* adjustTableIndexCapacities, lines 164-180, for one direction.
IndexAdjusted(capacity, peak, decreasesSoFarToday) ==
    LET start == capacity
        lowered == IF decreasesSoFarToday < MAXIMUM_TIMES_TO_LOWER_CAPACITY_PER_DAY
                   THEN CeilTimes(peak, LOWER_CAPACITY_MULTIPLE)
                   ELSE start
        raised == IF AboveThreshold(peak, capacity)
                  THEN CeilTimes(peak, RAISE_CAPACITY_MULTIPLE)
                  ELSE lowered
    IN  Min2(Max2(raised, MINIMUM_CAPACITY), MAXIMUM_CAPACITY)

\* Variant: the test looks at the write flag alone.
WasUpdatedWriteOnly(l) == l.writeWasUpdated

\* readWasUpdated or writeWasUpdated
WasUpdated(l) == l.readWasUpdated \/ l.writeWasUpdated

\* Variant: the test of the sender address left out.
ShouldNotifyIgnoringSender(l) ==
    /\ l.readWasUpdated = TRUE \/ l.writeWasUpdated = TRUE
    /\ Len(EMAIL_ADDRESSES_OF_RECIPIENTS) > 0

\* The condition under which a procedure calls sendEmailNotification.
ShouldNotify(l) ==
    /\ l.readWasUpdated = TRUE \/ l.writeWasUpdated = TRUE
    /\ Len(EMAIL_ADDRESSES_OF_RECIPIENTS) > 0
    /\ EMAIL_ADDRESS_OF_SENDER # ""

(***************************************************************************)
(* Records.                                                                *)
(***************************************************************************)
NoFrame ==
    [readCapacity |-> 0, writeCapacity |-> 0, decreasesSoFarToday |-> 0,
     readThroughput |-> <<>>, writeThroughput |-> <<>>,
     peakReadThroughputLastDay |-> 0, peakWriteThroughputLastDay |-> 0,
     adjustedReadCapacity |-> 0, adjustedWriteCapacity |-> 0,
     readWasUpdated |-> FALSE, writeWasUpdated |-> FALSE]

\* The frame of a procedure once it has read the unit's ProvisionedThroughput.
Entered(throughput) ==
    [NoFrame EXCEPT !.readCapacity = throughput.ReadCapacityUnits,
                    !.writeCapacity = throughput.WriteCapacityUnits,
                    !.decreasesSoFarToday = throughput.NumberOfDecreasesToday]

\* The update_table call: what it sends, and the capacities it replaces.
Command(u, l) ==
    [unit |-> u,
     ReadCapacityUnits |-> l.adjustedReadCapacity,
     WriteCapacityUnits |-> l.adjustedWriteCapacity,
     was |-> [ReadCapacityUnits |-> l.readCapacity,
              WriteCapacityUnits |-> l.writeCapacity,
              NumberOfDecreasesToday |-> l.decreasesSoFarToday]]

\* returnString, the line printed for a unit.
Summary(u, l) ==
    [kind |-> "unit", unit |-> u,
     writeCapacity |-> l.writeCapacity, readCapacity |-> l.readCapacity,
     decreasesSoFarToday |-> l.decreasesSoFarToday,
     peakRead |-> l.peakReadThroughputLastDay, peakWrite |-> l.peakWriteThroughputLastDay,
     updatedRead |-> l.readWasUpdated, newRead |-> l.adjustedReadCapacity,
     updatedWrite |-> l.writeWasUpdated, newWrite |-> l.adjustedWriteCapacity]

\* "No secondary indexes in table: ..." and "Finished Secondary Indexes on Table: ...".
TableLine(kind, t) == [Summary(TableUnit(t), NoFrame) EXCEPT !.kind = kind]

\* The service applying an accepted update: the new capacities, and one more
\* decrease counted when a capacity went down.
Applied(throughput, cmd) ==
    [ReadCapacityUnits |-> cmd.ReadCapacityUnits,
     WriteCapacityUnits |-> cmd.WriteCapacityUnits,
     NumberOfDecreasesToday |->
        IF \/ cmd.ReadCapacityUnits < throughput.ReadCapacityUnits
           \/ cmd.WriteCapacityUnits < throughput.WriteCapacityUnits
        THEN throughput.NumberOfDecreasesToday + 1
        ELSE throughput.NumberOfDecreasesToday]

\* Variant: the handler catches the exception and goes on with the next table.
RaiseSkipsTable ==
    /\ pc' = "handler"
    /\ failedAt' = unit

\* An exception of a boto3 call: nothing catches it, the invocation ends.
Raise ==
    /\ pc' = "failed"
    /\ failedAt' = unit

(***************************************************************************)
(* Initial states.                                                         *)
(***************************************************************************)
UnitState(read, write, decreases, readSums, writeSums) ==
    [ReadCapacityUnits |-> read, WriteCapacityUnits |-> write,
     NumberOfDecreasesToday |-> decreases,
     ConsumedReadCapacityUnits |-> readSums, ConsumedWriteCapacityUnits |-> writeSums]

ThroughputOf(s) ==
    [ReadCapacityUnits |-> s.ReadCapacityUnits,
     WriteCapacityUnits |-> s.WriteCapacityUnits,
     NumberOfDecreasesToday |-> s.NumberOfDecreasesToday]

DatapointsOf(s) ==
    [ConsumedReadCapacityUnits |-> s.ConsumedReadCapacityUnits,
     ConsumedWriteCapacityUnits |-> s.ConsumedWriteCapacityUnits]

\* A unit nothing is to be done for: at the floor, no consumption, no decrease left.
QuietUnit ==
    UnitState(MINIMUM_CAPACITY, MINIMUM_CAPACITY,
              MAXIMUM_TIMES_TO_LOWER_CAPACITY_PER_DAY, <<>>, <<>>)

\* Units of the many-unit specification: one to lower, one to leave alone, one to
\* raise in the read direction only.
SmallUnitStates ==
    {UnitState(10, 10, 0, <<>>, <<>>),
     UnitState(10, 10, MAXIMUM_TIMES_TO_LOWER_CAPACITY_PER_DAY, <<>>, <<>>),
     UnitState(10, MINIMUM_CAPACITY, MAXIMUM_TIMES_TO_LOWER_CAPACITY_PER_DAY, <<2850>>, <<>>)}

\* Units of the single-unit specification: one direction ranges over all capacities
\* and windows, the other over the plain ones; read and write take both roles.
RichUnitStates ==
    {UnitState(c, q, d, w, p) :
        c \in CapValues, q \in PlainCapacities, d \in 0..MaxDecreases,
        w \in Windows, p \in PlainWindows}
    \cup
    {UnitState(q, c, d, p, w) :
        c \in CapValues, q \in PlainCapacities, d \in 0..MaxDecreases,
        w \in Windows, p \in PlainWindows}

EmailConfigs ==
    {[sender |-> s, recipients |-> r] :
        s \in {"", "ops@example.com"}, r \in {<<>>, <<"oncall@example.com">>}}

Absent == [present |-> FALSE, names |-> <<>>]
Listing(n) == [present |-> TRUE, names |-> SubSeq(AllIndexNames, 1, n)]

InitRun(n) ==
    /\ pending = n
    /\ invocation = 0
    /\ prev = [outcome |-> "none", updates |-> <<>>]
    /\ pc = "idle"
    /\ tables = <<>>
    /\ indexes = <<>>
    /\ unit = NoUnit
    /\ local = NoFrame
    /\ failedAt = NoUnit
    /\ queries = <<>>
    /\ updates = <<>>
    /\ emails = <<>>
    /\ logs = <<>>

\* Up to MaxTables tables with up to MaxIndexes indexes each; the tables start
\* alike and the indexes start alike; one invocation.
Init ==
    /\ \E n \in 0..MaxTables : TableNames = SubSeq(AllTableNames, 1, n)
    /\ global_secondary_indexes \in
           [Range(TableNames) -> {Absent} \cup {Listing(k) : k \in 0..MaxIndexes}]
    /\ \E sT \in SmallUnitStates, sI \in SmallUnitStates :
          LET state(u) == IF u.index = NoIndex THEN sT ELSE sI
              units == UnitsOf(TableNames, global_secondary_indexes)
          IN  /\ provisioned_throughput = [u \in units |-> ThroughputOf(state(u))]
              /\ Datapoints = [u \in units |-> DatapointsOf(state(u))]
    /\ \E cfg \in EmailConfigs :
          /\ EMAIL_ADDRESS_OF_SENDER = cfg.sender
          /\ EMAIL_ADDRESSES_OF_RECIPIENTS = cfg.recipients
    /\ InitRun(1)

\* One table, alone or with one index; the last unit ranges over RichUnitStates
\* (the table of the index is quiet); MaxInvocations invocations in a row.
InitUnit ==
    /\ TableNames = SubSeq(AllTableNames, 1, 1)
    /\ global_secondary_indexes \in [Range(TableNames) -> {Absent, Listing(1)}]
    /\ \E s \in RichUnitStates :
          LET t == TableNames[1]
              alone == ~global_secondary_indexes[t].present
              state(u) == IF alone \/ u.index # NoIndex THEN s ELSE QuietUnit
              units == UnitsOf(TableNames, global_secondary_indexes)
          IN  /\ provisioned_throughput = [u \in units |-> ThroughputOf(state(u))]
              /\ Datapoints = [u \in units |-> DatapointsOf(state(u))]
    /\ \E cfg \in {c \in EmailConfigs : (c.sender = "") = (c.recipients = <<>>)} :
          /\ EMAIL_ADDRESS_OF_SENDER = cfg.sender
          /\ EMAIL_ADDRESSES_OF_RECIPIENTS = cfg.recipients
    /\ InitRun(MaxInvocations)

(***************************************************************************)
(* lambda_handler                                                          *)
(***************************************************************************)
\* The trigger starts an invocation; the handler lists the tables.
Invoke(ok) ==
    /\ pc \in {"idle", "done", "failed"}
    /\ pending > 0
    /\ pending' = pending - 1
    /\ invocation' = invocation + 1
    /\ prev' = [outcome |-> pc, updates |-> updates]
    /\ queries' = <<>>
    /\ updates' = <<>>
    /\ emails' = <<>>
    /\ logs' = <<>>
    /\ unit' = NoUnit
    /\ local' = NoFrame
    /\ indexes' = <<>>
    /\ failedAt' = NoUnit
    /\ IF ok THEN tables' = TableNames /\ pc' = "handler"
             ELSE tables' = <<>> /\ pc' = "failed"
    /\ UNCHANGED <<env, provisioned_throughput>>

\* for table in ...: adjustTableCapacity(table); adjustTableIndexCapacities(table)
HandlerLoop ==
    /\ pc = "handler"
    /\ IF tables = <<>>
       THEN /\ pc' = "done"
            /\ UNCHANGED <<tables, unit>>
       ELSE /\ unit' = TableUnit(Head(tables))
            /\ tables' = Tail(tables)
            /\ pc' = "table"
    /\ UNCHANGED <<env, trig, out, provisioned_throughput, indexes, local, failedAt>>

(***************************************************************************)
(* adjustTableCapacity                                                     *)
(***************************************************************************)
TableMetadata(ok) ==
    /\ pc = "table"
    /\ IF ok
       THEN /\ local' = Entered(provisioned_throughput[unit])
            /\ pc' = "table_write_metrics"
            /\ UNCHANGED failedAt
       ELSE Raise /\ UNCHANGED local
    /\ UNCHANGED <<env, trig, out, provisioned_throughput, tables, indexes, unit>>

TableWriteMetrics(ok) ==
    /\ pc = "table_write_metrics"
    /\ queries' = Append(queries, [unit |-> unit, MetricName |-> "ConsumedWriteCapacityUnits"])
    /\ IF ok
       THEN /\ local' = [local EXCEPT !.writeThroughput = Datapoints[unit].ConsumedWriteCapacityUnits]
            /\ pc' = "table_read_metrics"
            /\ UNCHANGED failedAt
       ELSE Raise /\ UNCHANGED local
    /\ UNCHANGED <<env, trig, updates, emails, logs, provisioned_throughput, tables, indexes, unit>>

TableReadMetrics(ok) ==
    /\ pc = "table_read_metrics"
    /\ queries' = Append(queries, [unit |-> unit, MetricName |-> "ConsumedReadCapacityUnits"])
    /\ IF ok
       THEN /\ local' = [local EXCEPT !.readThroughput = Datapoints[unit].ConsumedReadCapacityUnits]
            /\ pc' = "table_adjust"
            /\ UNCHANGED failedAt
       ELSE Raise /\ UNCHANGED local
    /\ UNCHANGED <<env, trig, updates, emails, logs, provisioned_throughput, tables, indexes, unit>>

\* Lines 73-100: the peaks, the adjusted capacities, the two flags.
TableDecision(l) ==
    LET peakRead == PeakLoop(0, l.readThroughput)
        peakWrite == PeakLoop(0, l.writeThroughput)
        adjustedWrite == TableAdjusted(l.writeCapacity, peakWrite, l.decreasesSoFarToday)
        adjustedRead == TableAdjusted(l.readCapacity, peakRead, l.decreasesSoFarToday)
    IN  [l EXCEPT !.peakReadThroughputLastDay = peakRead,
                  !.peakWriteThroughputLastDay = peakWrite,
                  !.adjustedWriteCapacity = adjustedWrite,
                  !.adjustedReadCapacity = adjustedRead,
                  !.readWasUpdated = (adjustedRead # l.readCapacity),
                  !.writeWasUpdated = (adjustedWrite # l.writeCapacity)]

\* Lines 73-107: decide, and call update_table when a flag is set.
TableAdjust(ok) ==
    /\ pc = "table_adjust"
    /\ local' = TableDecision(local)
    /\ IF WasUpdated(local')
       THEN /\ updates' = Append(updates, Command(unit, local'))
            /\ IF ok
               THEN /\ provisioned_throughput' =
                          [provisioned_throughput EXCEPT
                              ![unit] = Applied(@, Command(unit, local'))]
                    /\ pc' = "table_report"
                    /\ UNCHANGED failedAt
               ELSE Raise /\ UNCHANGED provisioned_throughput
       ELSE /\ ok
            /\ pc' = "table_report"
            /\ UNCHANGED <<updates, provisioned_throughput, failedAt>>
    /\ UNCHANGED <<env, trig, queries, emails, logs, tables, indexes, unit>>

\* Lines 109-121: the summary line, the notification, the print.
TableReport(ok) ==
    /\ pc = "table_report"
    /\ IF ShouldNotify(local)
       THEN /\ emails' = Append(emails, [unit |-> unit, Source |-> EMAIL_ADDRESS_OF_SENDER,
                                         ToAddresses |-> EMAIL_ADDRESSES_OF_RECIPIENTS])
            /\ IF ok
               THEN /\ logs' = Append(logs, Summary(unit, local))
                    /\ pc' = "index_listing"
                    /\ local' = NoFrame
                    /\ UNCHANGED failedAt
               ELSE Raise /\ UNCHANGED <<logs, local>>
       ELSE /\ ok
            /\ logs' = Append(logs, Summary(unit, local))
            /\ pc' = "index_listing"
            /\ local' = NoFrame
            /\ UNCHANGED <<emails, failedAt>>
    /\ UNCHANGED <<env, trig, queries, updates, provisioned_throughput, tables, indexes, unit>>

(***************************************************************************)
(* adjustTableIndexCapacities                                              *)
(***************************************************************************)
\* Lines 124-129: load the table's description; return if it has no index.
IndexListing(ok) ==
    /\ pc = "index_listing"
    /\ IF ok
       THEN LET t == unit.table
                gsi == global_secondary_indexes[t]
            IN  IF ~gsi.present
                THEN /\ logs' = Append(logs, TableLine("no_indexes", t))
                     /\ pc' = "handler"
                     /\ UNCHANGED <<indexes, failedAt>>
                ELSE /\ indexes' =
                          [k \in DOMAIN gsi.names |->
                              [IndexName |-> gsi.names[k],
                               ProvisionedThroughput |->
                                   provisioned_throughput[IndexUnit(t, gsi.names[k])]]]
                     /\ pc' = "index"
                     /\ UNCHANGED <<logs, failedAt>>
       ELSE Raise /\ UNCHANGED <<logs, indexes>>
    /\ UNCHANGED <<env, trig, queries, updates, emails, provisioned_throughput,
                   tables, unit, local>>

\* Lines 131-136 and 212: the next secondaryIndex, or the closing print.
IndexLoop ==
    /\ pc = "index"
    /\ IF indexes = <<>>
       THEN /\ logs' = Append(logs, TableLine("finished", unit.table))
            /\ pc' = "handler"
            /\ UNCHANGED <<indexes, unit, local>>
       ELSE LET secondaryIndex == Head(indexes)
            IN  /\ unit' = IndexUnit(unit.table, secondaryIndex.IndexName)
                /\ local' = Entered(secondaryIndex.ProvisionedThroughput)
                /\ indexes' = Tail(indexes)
                /\ pc' = "index_write_metrics"
                /\ UNCHANGED logs
    /\ UNCHANGED <<env, trig, queries, updates, emails, provisioned_throughput,
                   tables, failedAt>>

IndexWriteMetrics(ok) ==
    /\ pc = "index_write_metrics"
    /\ queries' = Append(queries, [unit |-> unit, MetricName |-> "ConsumedWriteCapacityUnits"])
    /\ IF ok
       THEN /\ local' = [local EXCEPT !.writeThroughput = Datapoints[unit].ConsumedWriteCapacityUnits]
            /\ pc' = "index_read_metrics"
            /\ UNCHANGED failedAt
       ELSE Raise /\ UNCHANGED local
    /\ UNCHANGED <<env, trig, updates, emails, logs, provisioned_throughput, tables, indexes, unit>>

IndexReadMetrics(ok) ==
    /\ pc = "index_read_metrics"
    /\ queries' = Append(queries, [unit |-> unit, MetricName |-> "ConsumedReadCapacityUnits"])
    /\ IF ok
       THEN /\ local' = [local EXCEPT !.readThroughput = Datapoints[unit].ConsumedReadCapacityUnits]
            /\ pc' = "index_adjust"
            /\ UNCHANGED failedAt
       ELSE Raise /\ UNCHANGED local
    /\ UNCHANGED <<env, trig, updates, emails, logs, provisioned_throughput, tables, indexes, unit>>

\* Lines 155-183: the peaks, the adjusted capacities, the two flags.
IndexDecision(l) ==
    LET peakRead == PeakLoop(0, l.readThroughput)
        peakWrite == PeakLoop(0, l.writeThroughput)
        adjustedWrite == IndexAdjusted(l.writeCapacity, peakWrite, l.decreasesSoFarToday)
        adjustedRead == IndexAdjusted(l.readCapacity, peakRead, l.decreasesSoFarToday)
    IN  [l EXCEPT !.peakReadThroughputLastDay = peakRead,
                  !.peakWriteThroughputLastDay = peakWrite,
                  !.adjustedWriteCapacity = adjustedWrite,
                  !.adjustedReadCapacity = adjustedRead,
                  !.readWasUpdated = (adjustedRead # l.readCapacity),
                  !.writeWasUpdated = (adjustedWrite # l.writeCapacity)]

\* Lines 155-197: decide, and call update_table for the index when a flag is set.
IndexAdjust(ok) ==
    /\ pc = "index_adjust"
    /\ local' = IndexDecision(local)
    /\ IF WasUpdated(local')
       THEN /\ updates' = Append(updates, Command(unit, local'))
            /\ IF ok
               THEN /\ provisioned_throughput' =
                          [provisioned_throughput EXCEPT
                              ![unit] = Applied(@, Command(unit, local'))]
                    /\ pc' = "index_report"
                    /\ UNCHANGED failedAt
               ELSE Raise /\ UNCHANGED provisioned_throughput
       ELSE /\ ok
            /\ pc' = "index_report"
            /\ UNCHANGED <<updates, provisioned_throughput, failedAt>>
    /\ UNCHANGED <<env, trig, queries, emails, logs, tables, indexes, unit>>

\* Lines 199-211: the summary line, the notification, the print.
IndexReport(ok) ==
    /\ pc = "index_report"
    /\ IF ShouldNotify(local)
       THEN /\ emails' = Append(emails, [unit |-> unit, Source |-> EMAIL_ADDRESS_OF_SENDER,
                                         ToAddresses |-> EMAIL_ADDRESSES_OF_RECIPIENTS])
            /\ IF ok
               THEN /\ logs' = Append(logs, Summary(unit, local))
                    /\ pc' = "index"
                    /\ local' = NoFrame
                    /\ UNCHANGED failedAt
               ELSE Raise /\ UNCHANGED <<logs, local>>
       ELSE /\ ok
            /\ logs' = Append(logs, Summary(unit, local))
            /\ pc' = "index"
            /\ local' = NoFrame
            /\ UNCHANGED <<emails, failedAt>>
    /\ UNCHANGED <<env, trig, queries, updates, provisioned_throughput, tables, indexes, unit>>

Next ==
    \/ \E ok \in BOOLEAN : Invoke(ok)
    \/ HandlerLoop
    \/ \E ok \in BOOLEAN : TableMetadata(ok)
    \/ \E ok \in BOOLEAN : TableWriteMetrics(ok)
    \/ \E ok \in BOOLEAN : TableReadMetrics(ok)
    \/ \E ok \in BOOLEAN : TableAdjust(ok)
    \/ \E ok \in BOOLEAN : TableReport(ok)
    \/ \E ok \in BOOLEAN : IndexListing(ok)
    \/ IndexLoop
    \/ \E ok \in BOOLEAN : IndexWriteMetrics(ok)
    \/ \E ok \in BOOLEAN : IndexReadMetrics(ok)
    \/ \E ok \in BOOLEAN : IndexAdjust(ok)
    \/ \E ok \in BOOLEAN : IndexReport(ok)

Spec == Init /\ [][Next]_vars

SpecUnit == InitUnit /\ [][Next]_vars

(***************************************************************************)
(* Vocabulary of the properties.                                           *)
(***************************************************************************)
Units == UnitsOf(TableNames, global_secondary_indexes)

\* The processing order: a table, then its indexes in listing order, then the next table.
RECURSIVE OrderFrom(_)
OrderFrom(names) ==
    IF names = <<>> THEN <<>>
    ELSE LET t == Head(names)
             listed == global_secondary_indexes[t].names
         IN  <<TableUnit(t)>> \o [k \in DOMAIN listed |-> IndexUnit(t, listed[k])]
                 \o OrderFrom(Tail(names))

Order == OrderFrom(TableNames)
Pos(u) == CHOOSE i \in DOMAIN Order : Order[i] = u

\* The least integer that is at least n / d, for n >= 0 and d > 0.
Ceiling(n, d) == (n \div d) + (IF n % d = 0 THEN 0 ELSE 1)
CeilLower(peak) == Ceiling(peak * LOWER_CAPACITY_MULTIPLE, SECONDS_PER_DATA_POINT * Hundredths)
CeilRaise(peak) == Ceiling(peak * RAISE_CAPACITY_MULTIPLE, SECONDS_PER_DATA_POINT * Hundredths)
OverThreshold(peak, capacity) ==
    peak * Hundredths > capacity * RAISE_CAPACITY_THRESHOLD * SECONDS_PER_DATA_POINT
Clamped(x) ==
    IF x < MINIMUM_CAPACITY THEN MINIMUM_CAPACITY
    ELSE IF x > MAXIMUM_CAPACITY THEN MAXIMUM_CAPACITY ELSE x
WithinBounds(x) == MINIMUM_CAPACITY <= x /\ x <= MAXIMUM_CAPACITY

\* The peak of a window: its largest sum, 0 for an empty window.
WindowPeak(points) ==
    LET S == Range(points) \cup {0} IN CHOOSE m \in S : \A x \in S : x <= m

\* The unit being processed has its capacities decided.
Decided == pc \in {"table_report", "index_report"}

\* The two directions of the decision just taken: what the procedure read, the peak
\* of the window the metrics service holds, and what the procedure arrived at.
Decisions ==
    IF Decided
    THEN {[direction |-> "read", capacity |-> local.readCapacity,
           peak |-> WindowPeak(Datapoints[unit].ConsumedReadCapacityUnits),
           decreases |-> local.decreasesSoFarToday,
           adjusted |-> local.adjustedReadCapacity],
          [direction |-> "write", capacity |-> local.writeCapacity,
           peak |-> WindowPeak(Datapoints[unit].ConsumedWriteCapacityUnits),
           decreases |-> local.decreasesSoFarToday,
           adjusted |-> local.adjustedWriteCapacity]}
    ELSE {}

UpdatesFor(u) == {i \in DOMAIN updates : updates[i].unit = u}
EmailsFor(u) == {j \in DOMAIN emails : emails[j].unit = u}
UnitLines == SelectSeq(logs, LAMBDA l : l.kind = "unit")
Changed(l) == l.newRead # l.readCapacity \/ l.newWrite # l.writeCapacity
Configured == EMAIL_ADDRESS_OF_SENDER # "" /\ Len(EMAIL_ADDRESSES_OF_RECIPIENTS) > 0
AtCeiling(decreases) == decreases >= MAXIMUM_TIMES_TO_LOWER_CAPACITY_PER_DAY

(***************************************************************************)
(* Properties.                                                             *)
(***************************************************************************)

\* C1: every update command carries a read and a write capacity within
\* [MINIMUM_CAPACITY, MAXIMUM_CAPACITY], whatever the current capacities, the
\* decrease count and the windows (an empty one included).
C1_UpdatesWithinBounds ==
    \A i \in DOMAIN updates :
        /\ WithinBounds(updates[i].ReadCapacityUnits)
        /\ WithinBounds(updates[i].WriteCapacityUnits)

\* C1 witness: an update for a unit provisioned above the maximum whose read
\* window is empty, and one that lifts a capacity below the minimum.
C1_Witness ==
    \E i \in DOMAIN updates :
        /\ Datapoints[updates[i].unit].ConsumedReadCapacityUnits = <<>>
        /\ \/ updates[i].was.ReadCapacityUnits > MAXIMUM_CAPACITY
           \/ updates[i].was.ReadCapacityUnits < MINIMUM_CAPACITY

\* C2: with the decrease count at the daily ceiling, no update command carries a
\* read value below the current read capacity or a write value below the current
\* write capacity.
C2_NoDecreaseAtCeiling ==
    \A i \in DOMAIN updates :
        AtCeiling(updates[i].was.NumberOfDecreasesToday) =>
            /\ updates[i].ReadCapacityUnits >= updates[i].was.ReadCapacityUnits
            /\ updates[i].WriteCapacityUnits >= updates[i].was.WriteCapacityUnits

\* An invocation that follows one that completed without failure, whose updates
\* the service has applied, against the same windows.
AfterCompleted == invocation >= 2 /\ prev.outcome = "done"

C4_FloorForEveryDecreaseCount ==
    \A d \in Decisions :
        CeilLower(d.peak) < MINIMUM_CAPACITY => d.adjusted = MINIMUM_CAPACITY

\* C4 amended: whenever ceil(peak * LOWER_CAPACITY_MULTIPLE) is below
\* MINIMUM_CAPACITY and the decrease count is below the daily ceiling, the adjusted
\* capacity is MINIMUM_CAPACITY, for every current capacity.
C4_FloorWhenLowering ==
    \A d \in Decisions :
        (CeilLower(d.peak) < MINIMUM_CAPACITY /\ ~AtCeiling(d.decreases))
            => d.adjusted = MINIMUM_CAPACITY

\* C4 witness: an index above the floor with a small, non-zero peak and a decrease left.
C4_Witness ==
    /\ pc = "index_report"
    /\ \E d \in Decisions :
          /\ d.peak > 0
          /\ CeilLower(d.peak) < MINIMUM_CAPACITY
          /\ ~AtCeiling(d.decreases)
          /\ d.capacity > MINIMUM_CAPACITY

\* C5 as stated: whenever ceil(peak * RAISE_CAPACITY_MULTIPLE) exceeds
\* MAXIMUM_CAPACITY the adjusted capacity is MAXIMUM_CAPACITY, for every current
\* capacity and decrease count.
C5_CeilingForEveryCapacity ==
    \A d \in Decisions :
        CeilRaise(d.peak) > MAXIMUM_CAPACITY => d.adjusted = MAXIMUM_CAPACITY

\* C5 amended: whenever ceil(peak * RAISE_CAPACITY_MULTIPLE) exceeds
\* MAXIMUM_CAPACITY and peak > currentCapacity * RAISE_CAPACITY_THRESHOLD, the
\* adjusted capacity is MAXIMUM_CAPACITY, for every decrease count.
C5_CeilingWhenRaising ==
    \A d \in Decisions :
        (CeilRaise(d.peak) > MAXIMUM_CAPACITY /\ OverThreshold(d.peak, d.capacity))
            => d.adjusted = MAXIMUM_CAPACITY

\* C5 witness: an index below the maximum whose peak calls for more than the maximum.
C5_Witness ==
    /\ pc = "index_report"
    /\ \E d \in Decisions :
          /\ CeilRaise(d.peak) > MAXIMUM_CAPACITY
          /\ OverThreshold(d.peak, d.capacity)
          /\ d.capacity < MAXIMUM_CAPACITY

\* The no-op case of one direction.
NoOp(capacity, peak, decreases) ==
    ~OverThreshold(peak, capacity) /\ AtCeiling(decreases)

C7_NotifiedOnceWhenChanged ==
    /\ \A i \in DOMAIN UnitLines :
          LET l == UnitLines[i]
          IN  Cardinality(EmailsFor(l.unit)) = IF Changed(l) /\ Configured THEN 1 ELSE 0
    /\ \A u \in Units :
          /\ Cardinality(EmailsFor(u)) <= 1
          /\ ~Configured => EmailsFor(u) = {}
          /\ EmailsFor(u) # {} =>
                \E i \in UpdatesFor(u) :
                    \/ updates[i].ReadCapacityUnits # updates[i].was.ReadCapacityUnits
                    \/ updates[i].WriteCapacityUnits # updates[i].was.WriteCapacityUnits

\* C7 witness: a completed invocation that notified for two units and reported a
\* third without notifying.
C7_Witness ==
    /\ pc = "done"
    /\ Configured
    /\ Len(emails) >= 2
    /\ \E i \in DOMAIN UnitLines : EmailsFor(UnitLines[i].unit) = {}

\* C8: a unit gets at most one update command per invocation; it gets one exactly
\* when the adjusted read or write capacity differs from the current one; the
\* command carries the adjusted read and the adjusted write capacity, an unchanged
\* direction with its current value.
C8_OneCombinedUpdate ==
    /\ \A u \in Units : Cardinality(UpdatesFor(u)) <= 1
    /\ Decided =>
          /\ UpdatesFor(unit) # {} <=>
                \/ local.adjustedReadCapacity # local.readCapacity
                \/ local.adjustedWriteCapacity # local.writeCapacity
          /\ \A i \in UpdatesFor(unit) :
                /\ updates[i].ReadCapacityUnits = local.adjustedReadCapacity
                /\ updates[i].WriteCapacityUnits = local.adjustedWriteCapacity
    /\ \A k \in DOMAIN UnitLines :
          LET l == UnitLines[k]
          IN  /\ UpdatesFor(l.unit) # {} <=> Changed(l)
              /\ \A i \in UpdatesFor(l.unit) :
                    /\ updates[i].ReadCapacityUnits = l.newRead
                    /\ updates[i].WriteCapacityUnits = l.newWrite
                    /\ l.newRead = l.readCapacity =>
                          updates[i].ReadCapacityUnits = updates[i].was.ReadCapacityUnits
                    /\ l.newWrite = l.writeCapacity =>
                          updates[i].WriteCapacityUnits = updates[i].was.WriteCapacityUnits

\* C8 witness: a reported unit whose update changed the read capacity and carried
\* the write capacity unchanged, in an invocation with another update.
C8_Witness ==
    /\ Len(updates) >= 2
    /\ \E k \in DOMAIN UnitLines : \E i \in UpdatesFor(UnitLines[k].unit) :
          /\ updates[i].ReadCapacityUnits # updates[i].was.ReadCapacityUnits
          /\ updates[i].WriteCapacityUnits = updates[i].was.WriteCapacityUnits

\* The units of a sequence of calls or lines come in processing order and none
\* lies after position k; rank gives every unit its position.
InOrderUpTo(rank, seq, k) ==
    /\ \A i \in DOMAIN seq : rank[seq[i].unit] <= k
    /\ \A i \in DOMAIN seq : i > 1 => rank[seq[i - 1].unit] <= rank[seq[i].unit]

\* An external call has failed in this invocation.
Stopped == pc = "failed" \/ failedAt # NoUnit

\* What an invocation has issued is in processing order and for units up to the
\* one being processed; a failed invocation stands at the unit that failed; a
\* completed one has printed one line per unit, in processing order.
IssuedInOrder ==
    LET order == Order
        rank == [u \in Range(order) |-> CHOOSE i \in DOMAIN order : order[i] = u]
    IN  /\ unit # NoUnit =>
              /\ InOrderUpTo(rank, queries, rank[unit])
              /\ InOrderUpTo(rank, updates, rank[unit])
              /\ InOrderUpTo(rank, emails, rank[unit])
              /\ InOrderUpTo(rank, UnitLines, rank[unit])
              /\ InOrderUpTo(rank, SelectSeq(logs, LAMBDA l : l.kind # "unit"), rank[unit])
        /\ unit = NoUnit => queries = <<>> /\ updates = <<>> /\ emails = <<>> /\ logs = <<>>
        /\ pc = "failed" => failedAt = unit
        /\ pc = "done" => [i \in DOMAIN UnitLines |-> UnitLines[i].unit] = order

\* C9: units are processed one at a time, a table, then its indexes in listing
\* order, then the next table; every metrics query, update command, notification
\* and line is for the unit being processed or an earlier one; once a call has
\* failed, the invocation issues nothing more, so what was issued is for units up
\* to the one that failed.
C9_FailFastInOrder ==
    /\ []IssuedInOrder
    /\ [][(Stopped /\ invocation' = invocation) => UNCHANGED <<out, unit>>]_vars

\* C9 witness: a call failed at a unit that is neither the first nor the last,
\* after an update for an earlier unit.
C9_Witness ==
    /\ pc = "failed"
    /\ failedAt # NoUnit
    /\ 1 < Pos(failedAt)
    /\ Pos(failedAt) < Len(Order)
    /\ updates # <<>>

\* What C10 says the adjusted capacity of one direction is.
ExpectedAdjusted(capacity, peak, decreases) ==
    IF OverThreshold(peak, capacity) THEN Clamped(CeilRaise(peak))
    ELSE IF ~AtCeiling(decreases) THEN Clamped(CeilLower(peak))
    ELSE Clamped(capacity)

====
